---- MODULE Spec2Model ----
(***************************************************************************)
(* Model of shrink_borders.py: border detection from the four corners,     *)
(* the per-edge content scan, the crop/pad decision of process_image, and   *)
(* the batch driver (main, setup_logging, process_directory).               *)
(*                                                                          *)
(* A decoded image is a record [kind, mode, w, h, px] with px a function    *)
(* from <<x, y>> (0-based, as in PIL) to the raw pixel value of the mode:   *)
(* an integer for mode "L", a tuple of channel values for the other modes.  *)
(* The file system maps every path to its content; the codec is taken to be *)
(* lossless, so a saved image is read back as the same pixel grid.          *)
(*                                                                          *)
(* Left out: the fallbacks for a pixel that is None and for img.load()      *)
(* returning None (no decoded image of the modelled modes takes them), and  *)
(* an output directory that lies inside the scanned tree.                   *)
(***************************************************************************)
EXTENDS Integers, Sequences, FiniteSets, TLC

VARIABLES
    fs,            \* path -> content (image, corrupt, text, log, absent)
    outDirExists,  \* whether output_dir exists as a directory
    cfg,           \* the parsed command line: padding, output_dir, dry_run, log_file, dirValid
    pc,            \* position of main(): "main", "scan", "loop", "summary", "done", "exit", "crashed"
    queue,         \* sorted(image_files) of the current run
    idx,           \* index (1-based) of the next file of queue to process
    run,           \* number of the current invocation of the tool
    events         \* what the logger reported per process_image call, over all runs

vars == <<fs, outDirExists, cfg, pc, queue, idx, run, events>>

----------------------------------------------------------------------------
(* Bounds of the model *)

MaxW == 3
MaxH == 3
MaxPad == 1
MaxRuns == 2

(* Program constants *)

White == 255

----------------------------------------------------------------------------
(* Images *)

Modes == {"L", "RGB", "RGBA", "LA"}

\* The raw pixel values an image of each mode is drawn from (two per mode).
Palette(mode) ==
    CASE mode = "L"    -> {0, White}
      [] mode = "RGB"  -> {<<0, 0, 0>>, <<White, White, White>>}
      [] mode = "RGBA" -> {<<0, 0, 0, 0>>, <<White, White, White, White>>}
      [] mode = "LA"   -> {<<0, White>>, <<White, 0>>}

Coords(w, h) == (0 .. w - 1) \X (0 .. h - 1)

MkImage(mode, w, h, px) == [kind |-> "image", mode |-> mode, w |-> w, h |-> h, px |-> px]

ImagesOf(modes, maxw, maxh) ==
    UNION { UNION { UNION { { MkImage(m, w, h, px) : px \in [Coords(w, h) -> Palette(m)] }
                            : h \in 1 .. maxh }
                    : w \in 1 .. maxw }
            : m \in modes }

\* img.getpixel((x, y)) / pixels[x, y]
getpixel(img, x, y) == img.px[<<x, y>>]

\* The normalisation of a pixel to a tuple: a single-band pixel is a number
\* and becomes a 1-tuple, a multi-band pixel is already a tuple.
NormalizePixel(img, pixel) ==
    IF img.mode = "L" THEN <<pixel>> ELSE pixel

Uniform(c) == [kind |-> "Uniform", color |-> c]
NonUniform == [kind |-> "NonUniform", color |-> <<>>]

\* variant: the last corner is left out of the comparison
AllEqualFirstThree(s) == \A i \in 1 .. Len(s) - 1 : s[i] = s[1]

AllEqualFirst(s) == \A i \in 1 .. Len(s) : s[i] = s[1]

get_border_color(img) ==
    LET corners == << getpixel(img, 0, 0),
                      getpixel(img, img.w - 1, 0),
                      getpixel(img, 0, img.h - 1),
                      getpixel(img, img.w - 1, img.h - 1) >>
        normalized_corners == [i \in 1 .. 4 |-> NormalizePixel(img, corners[i])]
        first_corner == normalized_corners[1]
    IN  IF AllEqualFirst(normalized_corners) THEN Uniform(first_corner) ELSE NonUniform

----------------------------------------------------------------------------
(* The content scan *)

Differs(img, border_color, x, y) ==
    NormalizePixel(img, getpixel(img, x, y)) # border_color

\* variant: only the two ends of the column are looked at
ColumnHitEndsOnly(img, border_color, x, y) ==
    Differs(img, border_color, x, 0) \/ Differs(img, border_color, x, img.h - 1)

\* inner loop "for y in range(height)": does column x hold a differing pixel
RECURSIVE ColumnHit(_, _, _, _)
ColumnHit(img, border_color, x, y) ==
    IF y >= img.h THEN FALSE
    ELSE IF Differs(img, border_color, x, y) THEN TRUE
    ELSE ColumnHit(img, border_color, x, y + 1)

\* inner loop "for x in range(width)": does row y hold a differing pixel
RECURSIVE RowHit(_, _, _, _)
RowHit(img, border_color, y, x) ==
    IF x >= img.w THEN FALSE
    ELSE IF Differs(img, border_color, x, y) THEN TRUE
    ELSE RowHit(img, border_color, y, x + 1)

RECURSIVE ScanLeft(_, _, _)
ScanLeft(img, border_color, x) ==
    IF x >= img.w THEN 0
    ELSE IF ColumnHit(img, border_color, x, 0) THEN x
    ELSE ScanLeft(img, border_color, x + 1)

\* variant: right_content starts at 0 instead of width - 1
RECURSIVE ScanRightFromZero(_, _, _)
ScanRightFromZero(img, border_color, x) ==
    IF x < 0 THEN 0
    ELSE IF ColumnHit(img, border_color, x, 0) THEN x
    ELSE ScanRightFromZero(img, border_color, x - 1)

RECURSIVE ScanRight(_, _, _)
ScanRight(img, border_color, x) ==
    IF x < 0 THEN img.w - 1
    ELSE IF ColumnHit(img, border_color, x, 0) THEN x
    ELSE ScanRight(img, border_color, x - 1)

RECURSIVE ScanTop(_, _, _)
ScanTop(img, border_color, y) ==
    IF y >= img.h THEN 0
    ELSE IF RowHit(img, border_color, y, 0) THEN y
    ELSE ScanTop(img, border_color, y + 1)

RECURSIVE ScanBottom(_, _, _)
ScanBottom(img, border_color, y) ==
    IF y < 0 THEN img.h - 1
    ELSE IF RowHit(img, border_color, y, 0) THEN y
    ELSE ScanBottom(img, border_color, y - 1)

\* variant: the inclusive index is passed to crop as it is
ExclusiveBoundOff(inclusive) == inclusive

\* "+1 because crop is exclusive"
ExclusiveBound(inclusive) == inclusive + 1

Max2(a, b) == IF a >= b THEN a ELSE b
Max4(a, b, c, d) == Max2(Max2(a, b), Max2(c, d))

find_uniform_content_bounds(img, border_color) ==
    LET left_content   == ScanLeft(img, border_color, 0)
        right_content  == ScanRight(img, border_color, img.w - 1)
        top_content    == ScanTop(img, border_color, 0)
        bottom_content == ScanBottom(img, border_color, img.h - 1)
        left_border    == left_content
        right_border   == img.w - 1 - right_content
        top_border     == top_content
        bottom_border  == img.h - 1 - bottom_content
    IN  [ left_border    |-> left_border,
          right_border   |-> right_border,
          top_border     |-> top_border,
          bottom_border  |-> bottom_border,
          content_left   |-> left_content,
          content_top    |-> top_content,
          content_right  |-> ExclusiveBound(right_content),
          content_bottom |-> ExclusiveBound(bottom_content),
          max_border     |-> Max4(left_border, right_border, top_border, bottom_border) ]

NoBounds ==
    [ left_border |-> 0, right_border |-> 0, top_border |-> 0, bottom_border |-> 0,
      content_left |-> 0, content_top |-> 0, content_right |-> 0, content_bottom |-> 0,
      max_border |-> 0 ]

----------------------------------------------------------------------------
(* Pixel-buffer operations of the imaging library *)

\* img.crop((left, top, right, bottom)), right and bottom exclusive
crop(img, left, top, right, bottom) ==
    MkImage(img.mode, right - left, bottom - top,
            [c \in Coords(right - left, bottom - top) |-> getpixel(img, c[1] + left, c[2] + top)])

\* ImageOps.expand(img, border=border, fill=fill)
expand(img, border, fill) ==
    MkImage(img.mode, img.w + 2 * border, img.h + 2 * border,
            [c \in Coords(img.w + 2 * border, img.h + 2 * border) |->
                IF /\ c[1] >= border /\ c[1] < border + img.w
                   /\ c[2] >= border /\ c[2] < border + img.h
                THEN getpixel(img, c[1] - border, c[2] - border)
                ELSE fill])

\* One pixel of img.convert('RGB') for the modes of the model
ToRGB(mode, pixel) ==
    CASE mode = "L"    -> <<pixel, pixel, pixel>>
      [] mode = "RGB"  -> pixel
      [] mode = "RGBA" -> <<pixel[1], pixel[2], pixel[3]>>
      [] mode = "LA"   -> <<pixel[1], pixel[1], pixel[1]>>

convertRGB(img) ==
    MkImage("RGB", img.w, img.h, [c \in Coords(img.w, img.h) |-> ToRGB(img.mode, img.px[c])])

----------------------------------------------------------------------------
(* Files *)

\* The scanned tree holds two sub-directories; "x.png" exists in both.
InputPaths == { <<"a", "notes.txt">>, <<"a", "x.png">>, <<"a", "y.png">>, <<"b", "x.png">> }

\* The order of sorted() on the paths of the tree
PathOrder == << <<"a", "notes.txt">>, <<"a", "x.png">>, <<"a", "y.png">>, <<"b", "x.png">> >>

OutputDir == "out"
OutputPaths == { <<OutputDir, p[2]>> : p \in InputPaths }

DefaultLogFile == <<"cwd", "shrink-borders.log">>

AllPaths == InputPaths \cup OutputPaths \cup {DefaultLogFile}

Absent  == [kind |-> "absent"]
Corrupt == [kind |-> "corrupt"]   \* an image suffix, bytes no codec decodes
Text    == [kind |-> "text"]      \* a file that is no image
LogText == [kind |-> "log"]       \* the run log, as left by the FileHandler

\* f.suffix.lower() in image_extensions
HasImageSuffix(p) == p[2] \in {"x.png", "y.png"}

----------------------------------------------------------------------------
(* process_image *)

MkEvent(r, path, input, action, stage, border, bounds, output_path, result) ==
    [ run |-> r, path |-> path, input |-> input, action |-> action, stage |-> stage,
      border |-> border, bounds |-> bounds, output_path |-> output_path, result |-> result ]

\* variant: only a failure to open the file is caught
ExceptionEscapesOnSave(stage) == stage = "save"

\* "except Exception as e": no exception raised inside the try leaves process_image
ExceptionEscapes(stage) == FALSE

\* fill colour of the add-only branch, by image mode
DefaultFill(mode) ==
    IF mode = "L" THEN White
    ELSE IF mode \in {"RGB", "RGBA"}
         THEN (IF mode = "RGB" THEN <<White, White, White>> ELSE <<White, White, White, White>>)
         ELSE <<White, White, White>>

\* the image the add-only branch expands: converted when the mode is none of L, RGB, RGBA
AddOnlySource(img) ==
    IF img.mode \in {"L", "RGB", "RGBA"} THEN img ELSE convertRGB(img)

\* fill colour of the crop-and-pad branch: the detected colour, a 1-tuple unwrapped
CropFill(border_color) ==
    IF Len(border_color) = 1 THEN border_color[1] ELSE border_color

\* "if max_border == 0 and padding == 0": nothing to do
ShouldSkip(max_border, padding) == max_border = 0 /\ padding = 0

\* variant: the add-only branch does not look at dry_run
DryRunIgnored(dry_run) == FALSE

\* "if dry_run: ... return" of the add-only branch
DryRunAddOnly(dry_run) == dry_run

\* "if dry_run: ... return" of the crop-and-pad branch
DryRunCropAndPad(dry_run) == dry_run

\* output_dir.mkdir(parents=True, exist_ok=True) on the crop-and-pad branch
MkdirBeforeSave(dirExists) == TRUE

\* the add-only branch saves without creating output_dir
MkdirBeforeAddOnlySave(dirExists) == dirExists

\* output_dir / file_path.name, or file_path itself
OutputPathOf(file_path, output_dir) ==
    IF output_dir THEN <<OutputDir, file_path[2]>> ELSE file_path

\* The whole of process_image on file_path, from file system f with output_dir
\* existing or not: the file system after, the directory's existence after, the
\* reported event, and whether an exception leaves the function.
process_image(f, dirExists, r, file_path, padding, output_dir, dry_run) ==
    LET img         == f[file_path]
        output_path == OutputPathOf(file_path, output_dir)
        Unchanged(ev) ==
            [fs |-> f, outDirExists |-> dirExists, event |-> ev, raised |-> FALSE]
        Failed(stage, border, bounds, dirAfter) ==
            [ fs |-> f, outDirExists |-> dirAfter,
              event |-> MkEvent(r, file_path, img, "ERROR", stage, border, bounds, output_path, Absent),
              raised |-> ExceptionEscapes(stage) ]
        Saved(action, border, bounds, dirAfter, result) ==
            [ fs |-> [f EXCEPT ![output_path] = result], outDirExists |-> dirAfter,
              event |-> MkEvent(r, file_path, img, action, "", border, bounds, output_path, result),
              raised |-> FALSE ]
    IN  IF img.kind # "image"
        THEN Failed("open", NonUniform, NoBounds, dirExists)
        ELSE
        LET border == get_border_color(img) IN
        IF border.kind = "NonUniform"
        THEN IF DryRunAddOnly(dry_run)
             THEN Unchanged(MkEvent(r, file_path, img, "DRY-RUN-ADD", "", border, NoBounds, output_path, Absent))
             ELSE LET result   == expand(AddOnlySource(img), padding, DefaultFill(img.mode))
                      dirAfter == IF output_dir THEN MkdirBeforeAddOnlySave(dirExists) ELSE dirExists
                  IN  IF output_dir /\ ~dirAfter
                      THEN Failed("save", border, NoBounds, dirAfter)
                      ELSE Saved("ADDED", border, NoBounds, dirAfter, result)
        ELSE
        LET bounds == find_uniform_content_bounds(img, border.color) IN
        IF ShouldSkip(bounds.max_border, padding)
        THEN Unchanged(MkEvent(r, file_path, img, "SKIP", "", border, bounds, output_path, Absent))
        ELSE IF DryRunCropAndPad(dry_run)
        THEN Unchanged(MkEvent(r, file_path, img, "DRY-RUN-CROP", "", border, bounds, output_path, Absent))
        ELSE LET content_only == crop(img, bounds.content_left, bounds.content_top,
                                      bounds.content_right, bounds.content_bottom)
                 result   == expand(content_only, padding, CropFill(border.color))
                 dirAfter == IF output_dir THEN MkdirBeforeSave(dirExists) ELSE dirExists
             IN  IF output_dir /\ ~dirAfter
                 THEN Failed("save", border, bounds, dirAfter)
                 ELSE Saved("APPLIED", border, bounds, dirAfter, result)

----------------------------------------------------------------------------
(* The batch driver *)

\* sorted(image_files): the discovered paths in path order
RECURSIVE SortedFrom(_, _)
SortedFrom(S, i) ==
    IF i > Len(PathOrder) THEN <<>>
    ELSE (IF PathOrder[i] \in S THEN <<PathOrder[i]>> ELSE <<>>) \o SortedFrom(S, i + 1)

sorted(S) == SortedFrom(S, 1)

\* directory.rglob("*") filtered by is_file() and the suffix
image_files(f) == { p \in InputPaths : f[p].kind # "absent" /\ HasImageSuffix(p) }

\* logging.FileHandler(log_file, mode="w"): the log file is truncated and rewritten
setup_logging(f, log_file) == [f EXCEPT ![log_file] = LogText]

\* main(): the directory is missing or no directory: print the error and return
MainInvalid ==
    /\ pc = "main"
    /\ ~cfg.dirValid
    /\ pc' = "exit"
    /\ UNCHANGED <<fs, outDirExists, cfg, queue, idx, run, events>>

\* main(): validation passed; setup_logging and the header lines
MainStart ==
    /\ pc = "main"
    /\ cfg.dirValid
    /\ fs' = setup_logging(fs, cfg.log_file)
    /\ pc' = "scan"
    /\ UNCHANGED <<outDirExists, cfg, queue, idx, run, events>>

\* process_directory up to the loop: discover, sort; nothing found returns to main
ProcessDirectory ==
    /\ pc = "scan"
    /\ queue' = sorted(image_files(fs))
    /\ idx' = 1
    /\ pc' = IF queue' = <<>> THEN "summary" ELSE "loop"
    /\ UNCHANGED <<fs, outDirExists, cfg, run, events>>

\* one iteration of "for image_file in sorted(image_files)"
ProcessImage ==
    /\ pc = "loop"
    /\ idx <= Len(queue)
    /\ LET r == process_image(fs, outDirExists, run, queue[idx],
                              cfg.padding, cfg.output_dir, cfg.dry_run)
       IN  /\ fs' = r.fs
           /\ outDirExists' = r.outDirExists
           /\ events' = Append(events, r.event)
           /\ idx' = idx + 1
           /\ pc' = IF r.raised THEN "crashed"
                    ELSE IF idx + 1 > Len(queue) THEN "summary" ELSE "loop"
    /\ UNCHANGED <<cfg, queue, run>>

\* main() after process_directory: "Processing complete!"
Summary ==
    /\ pc = "summary"
    /\ pc' = "done"
    /\ UNCHANGED <<fs, outDirExists, cfg, queue, idx, run, events>>

\* the tool is invoked again with the same command line
Rerun ==
    /\ pc \in {"done", "exit"}
    /\ run < MaxRuns
    /\ run' = run + 1
    /\ pc' = "main"
    /\ queue' = <<>>
    /\ idx' = 1
    /\ UNCHANGED <<fs, outDirExists, cfg, events>>

Next ==
    \/ MainInvalid
    \/ MainStart
    \/ ProcessDirectory
    \/ ProcessImage
    \/ Summary
    \/ Rerun

----------------------------------------------------------------------------
(* Initial states *)

Configs(logFiles) ==
    { c \in [ padding : 0 .. MaxPad, output_dir : BOOLEAN, dry_run : BOOLEAN,
              log_file : logFiles, dirValid : BOOLEAN ] : TRUE }

EmptyFs == [p \in AllPaths |-> Absent]

InitCommon ==
    /\ pc = "main"
    /\ queue = <<>>
    /\ idx = 1
    /\ run = 1
    /\ events = <<>>
    /\ outDirExists \in BOOLEAN
    /\ (~cfg.output_dir => ~outDirExists)

\* One image file, drawn from every image of the bounded sizes and modes
Init ==
    /\ cfg \in Configs({DefaultLogFile})
    /\ IF cfg.dirValid
       THEN \E img \in ImagesOf(Modes, MaxW, MaxH) :
                fs = [EmptyFs EXCEPT ![<<"a", "x.png">>] = img]
       ELSE fs = EmptyFs
    /\ InitCommon

Spec == Init /\ [][Next]_vars

----------------------------------------------------------------------------
(* A batch: up to three image files in two sub-directories *)

\* a single-coloured image, an image with mismatching corners, and an image
\* with a one-pixel frame around one content pixel
Plain  == MkImage("L", 1, 1, [c \in Coords(1, 1) |-> 0])
Mixed  == MkImage("L", 2, 1, [c \in Coords(2, 1) |-> IF c[1] = 0 THEN 0 ELSE White])
Framed == MkImage("L", 3, 3, [c \in Coords(3, 3) |-> IF c = <<1, 1>> THEN White ELSE 0])

BatchContents == {Absent, Corrupt, Plain, Mixed, Framed}

BatchInit ==
    /\ cfg \in Configs({DefaultLogFile, <<"a", "y.png">>})
    /\ IF cfg.dirValid
       THEN \E cx \in BatchContents, cy \in BatchContents, cz \in BatchContents :
                fs = [EmptyFs EXCEPT ![<<"a", "notes.txt">>] = Text,
                                     ![<<"a", "x.png">>] = cx,
                                     ![<<"a", "y.png">>] = cy,
                                     ![<<"b", "x.png">>] = cz]
       ELSE fs = EmptyFs
    /\ InitCommon

BatchSpec == BatchInit /\ [][Next]_vars

----------------------------------------------------------------------------
(* Vocabulary of the properties, stated on the pixels and not through the    *)
(* functions of the program                                                 *)

ImageEvents == { i \in 1 .. Len(events) : events[i].input.kind = "image" }

\* the colour of pixel (x, y) as a tuple of channel values
ColourAt(img, x, y) ==
    IF img.mode = "L" THEN <<img.px[<<x, y>>]>> ELSE img.px[<<x, y>>]

ColoursOf(mode) ==
    IF mode = "L" THEN { <<v>> : v \in Palette(mode) } ELSE Palette(mode)

CornersAgree(img) ==
    /\ img.px[<<img.w - 1, 0>>] = img.px[<<0, 0>>]
    /\ img.px[<<0, img.h - 1>>] = img.px[<<0, 0>>]
    /\ img.px[<<img.w - 1, img.h - 1>>] = img.px[<<0, 0>>]

OneCornerOff(img) ==
    /\ img.px[<<img.w - 1, 0>>] = img.px[<<0, 0>>]
    /\ img.px[<<0, img.h - 1>>] = img.px[<<0, 0>>]
    /\ img.px[<<img.w - 1, img.h - 1>>] # img.px[<<0, 0>>]

DiffCols(img, c) == { x \in 0 .. img.w - 1 : \E y \in 0 .. img.h - 1 : ColourAt(img, x, y) # c }
DiffRows(img, c) == { y \in 0 .. img.h - 1 : \E x \in 0 .. img.w - 1 : ColourAt(img, x, y) # c }

SetMin(S) == CHOOSE m \in S : \A k \in S : m <= k
SetMax(S) == CHOOSE m \in S : \A k \in S : m >= k

\* the content rectangle (right and bottom exclusive): the bounding box of the
\* pixels that differ from c, and the whole image when none differs
ContentBox(img, c) ==
    IF DiffCols(img, c) = {}
    THEN [left |-> 0, top |-> 0, right |-> img.w, bottom |-> img.h]
    ELSE [left  |-> SetMin(DiffCols(img, c)), top    |-> SetMin(DiffRows(img, c)),
          right |-> SetMax(DiffCols(img, c)) + 1, bottom |-> SetMax(DiffRows(img, c)) + 1]

BoxOf(b) ==
    [left |-> b.content_left, top |-> b.content_top,
     right |-> b.content_right, bottom |-> b.content_bottom]

\* every edge of the rectangle lies on a row or column that holds a differing
\* pixel, and no differing pixel lies outside the rectangle
TouchesContent(img, c, b) ==
    /\ b.content_left \in DiffCols(img, c)
    /\ b.content_right - 1 \in DiffCols(img, c)
    /\ b.content_top \in DiffRows(img, c)
    /\ b.content_bottom - 1 \in DiffRows(img, c)
    /\ \A x \in DiffCols(img, c) : b.content_left <= x /\ x <= b.content_right - 1
    /\ \A y \in DiffRows(img, c) : b.content_top <= y /\ y <= b.content_bottom - 1

WidthsFromBox(img, b) ==
    /\ b.left_border = b.content_left
    /\ b.right_border = img.w - 1 - (b.content_right - 1)
    /\ b.top_border = b.content_top
    /\ b.bottom_border = img.h - 1 - (b.content_bottom - 1)
    /\ b.max_border \in {b.left_border, b.right_border, b.top_border, b.bottom_border}
    /\ \A v \in {b.left_border, b.right_border, b.top_border, b.bottom_border} : v <= b.max_border

BoxInRange(img, b) ==
    /\ 0 <= b.content_left /\ b.content_left <= b.content_right /\ b.content_right <= img.w
    /\ 0 <= b.content_top /\ b.content_top <= b.content_bottom /\ b.content_bottom <= img.h

----------------------------------------------------------------------------
(* C3 *)

\* C3: for every decoded image, the reported detection is Uniform(c) exactly
\* when the four corner pixels are equal, c being their colour as a tuple, and
\* NonUniform otherwise; only the four corners enter the result.
C3_CornerDetection ==
    \A i \in ImageEvents :
        LET img == events[i].input IN
        events[i].border = IF CornersAgree(img) THEN Uniform(ColourAt(img, 0, 0)) ELSE NonUniform

\* three corners agree and the fourth does not, on an image wider and taller than one pixel
C3_Witness ==
    \E i \in ImageEvents :
        /\ OneCornerOff(events[i].input)
        /\ events[i].border = NonUniform
        /\ \E j \in ImageEvents : events[j].border.kind = "Uniform" /\ events[j].input.w > 1

----------------------------------------------------------------------------
(* C2 *)

\* C2 as stated: for every image and every border colour the returned
\* rectangle is the bounding box of the differing pixels, each edge on the
\* first or last row or column that holds a differing pixel; the widths are
\* the distances to the image edges, max_border their maximum, and
\* 0 <= left <= right <= width, 0 <= top <= bottom <= height.
C2_AsStated ==
    \A i \in ImageEvents :
        LET img == events[i].input IN
        \A c \in ColoursOf(img.mode) :
            LET b == find_uniform_content_bounds(img, c) IN
            /\ TouchesContent(img, c, b)
            /\ WidthsFromBox(img, b)
            /\ BoxInRange(img, b)

\* C2 amended: the same when at least one pixel differs from the border
\* colour; when none differs the rectangle is the whole image (0, 0, width,
\* height) and the four widths are 0. The bounds process_image reports are
\* those of the detected colour.
C2_TightBounds ==
    \A i \in ImageEvents :
        LET img == events[i].input IN
        /\ \A c \in ColoursOf(img.mode) :
              LET b == find_uniform_content_bounds(img, c) IN
              /\ IF DiffCols(img, c) # {}
                 THEN TouchesContent(img, c, b)
                 ELSE /\ BoxOf(b) = [left |-> 0, top |-> 0, right |-> img.w, bottom |-> img.h]
                      /\ b.max_border = 0
              /\ WidthsFromBox(img, b)
              /\ BoxInRange(img, b)
        /\ events[i].border.kind = "Uniform" =>
              /\ BoxOf(events[i].bounds) = ContentBox(img, events[i].border.color)
              /\ WidthsFromBox(img, events[i].bounds)

\* the content starts one column and one row in and reaches the right and
\* bottom edges, and the differing pixels of the last column and row are not corners
C2_Witness ==
    \E i \in ImageEvents :
        /\ events[i].border.kind = "Uniform"
        /\ events[i].bounds.left_border = 1 /\ events[i].bounds.right_border = 0
        /\ events[i].bounds.top_border = 1 /\ events[i].bounds.bottom_border = 0
        /\ events[i].input.w = 3 /\ events[i].input.h = 3

----------------------------------------------------------------------------
(* C1 *)

\* a border of colour c and width b on every edge around the content
HasBorderOfWidth(img, c, b) ==
    /\ CornersAgree(img) /\ ColourAt(img, 0, 0) = c
    /\ ContentBox(img, c) = [left |-> b, top |-> b, right |-> img.w - b, bottom |-> img.h - b]

Unwrap(img, c) == IF img.mode = "L" THEN c[1] ELSE c

\* C1: a live run on an image with uniform corners that is not skipped crops
\* and pads: the written image is contentWidth + 2p by contentHeight + 2p, that
\* is (w - 2b + 2p, h - 2b + 2p) when the border is b wide on every edge; it
\* holds the content rectangle at offset (p, p) and the border colour around it.
C1_CropAndPadSize ==
    \A i \in ImageEvents :
        LET e   == events[i]
            img == e.input
            p   == cfg.padding
        IN  /\ (e.border.kind = "Uniform" /\ ~cfg.dry_run /\ e.action # "SKIP") => e.action = "APPLIED"
            /\ e.action = "APPLIED" =>
                 LET c   == ColourAt(img, 0, 0)
                     box == ContentBox(img, c)
                     out == e.result
                 IN  /\ out.kind = "image" /\ out.mode = img.mode
                     /\ out.w = (box.right - box.left) + 2 * p
                     /\ out.h = (box.bottom - box.top) + 2 * p
                     /\ \A b \in 0 .. img.w :
                           HasBorderOfWidth(img, c, b) =>
                               /\ out.w = img.w - 2 * b + 2 * p
                               /\ out.h = img.h - 2 * b + 2 * p
                     /\ DOMAIN out.px = Coords(out.w, out.h)
                     /\ \A xy \in Coords(out.w, out.h) :
                           out.px[xy] =
                              IF /\ xy[1] >= p /\ xy[1] < out.w - p
                                 /\ xy[2] >= p /\ xy[2] < out.h - p
                              THEN img.px[<<xy[1] - p + box.left, xy[2] - p + box.top>>]
                              ELSE Unwrap(img, c)
                     /\ (i = Len(events) => fs[e.output_path] = out)

\* a 3 x 3 image with a border of width 1 was cropped to its content pixel and padded by 1
C1_Witness ==
    \E i \in ImageEvents :
        /\ events[i].action = "APPLIED"
        /\ HasBorderOfWidth(events[i].input, ColourAt(events[i].input, 0, 0), 1)
        /\ DiffCols(events[i].input, ColourAt(events[i].input, 0, 0)) # {}
        /\ cfg.padding = 1
        /\ events[i].result.w = events[i].input.w /\ events[i].result.h = events[i].input.h

----------------------------------------------------------------------------
(* C5 *)

NothingToTrim(img) ==
    /\ img.kind = "image"
    /\ CornersAgree(img)
    /\ ContentBox(img, ColourAt(img, 0, 0)) = [left |-> 0, top |-> 0, right |-> img.w, bottom |-> img.h]

SingleColoured(img) ==
    /\ img.kind = "image"
    /\ \A xy \in Coords(img.w, img.h) : img.px[xy] = img.px[<<0, 0>>]

\* C5: with padding 0, processing an image whose corners agree and whose
\* content rectangle is the whole image (a single-coloured image in
\* particular) reports Uniform, max_border 0 and SKIP, and changes no file and
\* not the output directory, in live and in dry-run mode; a single-coloured
\* image is reported with four widths of 0 and the whole image as content.
C5_SkipWhenNothingToDo ==
    [][ (pc = "loop" /\ cfg.padding = 0 /\ NothingToTrim(fs[queue[idx]])) =>
            LET img == fs[queue[idx]]
                e   == events'[Len(events')]
            IN  /\ fs' = fs
                /\ outDirExists' = outDirExists
                /\ e.action = "SKIP"
                /\ e.border = Uniform(ColourAt(img, 0, 0))
                /\ e.bounds.max_border = 0
                /\ SingleColoured(img) =>
                      /\ e.bounds.left_border = 0 /\ e.bounds.right_border = 0
                      /\ e.bounds.top_border = 0 /\ e.bounds.bottom_border = 0
                      /\ BoxOf(e.bounds) = [left |-> 0, top |-> 0, right |-> img.w, bottom |-> img.h]
      ]_vars

\* a live run with output_dir set and missing skipped a single-coloured image
\* wider than one pixel and left the directory missing
C5_Witness ==
    \E i \in ImageEvents :
        /\ events[i].action = "SKIP"
        /\ SingleColoured(events[i].input) /\ events[i].input.w > 1
        /\ ~cfg.dry_run /\ cfg.output_dir /\ ~outDirExists
        /\ fs[events[i].output_path] = Absent

----------------------------------------------------------------------------
(* C4 *)

Written(e) == e.action \in {"ADDED", "APPLIED"}

WhiteOf(mode) ==
    CASE mode = "L"    -> White
      [] mode = "RGB"  -> <<White, White, White>>
      [] mode = "RGBA" -> <<White, White, White, White>>

\* C4: every image whose corners do not all match is detected NonUniform, and
\* a live run writes the original surrounded by a white border of p pixels:
\* each dimension grows by 2p and the original pixels sit unchanged at (p, p)
\* (the pixels are compared in the modes that are saved without conversion).
C4_AlwaysAddsBorder ==
    \A i \in ImageEvents :
        LET e   == events[i]
            img == e.input
            p   == cfg.padding
            out == e.result
        IN  ~CornersAgree(img) =>
              /\ e.border = NonUniform
              /\ ~cfg.dry_run =>
                    /\ e.action = "ADDED"
                    /\ out.w = img.w + 2 * p /\ out.h = img.h + 2 * p
                    /\ img.mode \in {"L", "RGB", "RGBA"} =>
                          \A xy \in Coords(out.w, out.h) :
                             out.px[xy] =
                                IF /\ xy[1] >= p /\ xy[1] < p + img.w
                                   /\ xy[2] >= p /\ xy[2] < p + img.h
                                THEN img.px[<<xy[1] - p, xy[2] - p>>]
                                ELSE WhiteOf(img.mode)

----------------------------------------------------------------------------
(* C6 *)

\* the content of the file after the call: what was written, or the input left as it was
OutcomeOf(e) == IF Written(e) THEN e.result ELSE e.input

\* C6: an image that is the output of a crop-and-pad with padding p, processed
\* again with the same p, comes out with the same dimensions and pixels: the
\* second run leaves the file as the first run wrote it.
C6_Idempotent ==
    \A i \in ImageEvents : \A j \in ImageEvents :
        (events[i].action = "APPLIED" /\ events[j].input = events[i].result) =>
            /\ events[j].action # "ERROR"
            /\ OutcomeOf(events[j]) = events[j].input

----------------------------------------------------------------------------
(* C7 *)

\* C7 as stated: in dry-run mode no step of the run changes any file or the
\* output directory.
C7_AsStated ==
    [][ cfg.dry_run => (fs' = fs /\ outDirExists' = outDirExists) ]_vars

\* C7 amended: in dry-run mode no step changes any file other than the log
\* file, which is only ever replaced by the run log, or the existence of the
\* output directory; every processed file is reported with an error, SKIP or a
\* DRY-RUN action.
C7_DryRunWritesOnlyLog ==
    [][ cfg.dry_run =>
          /\ \A p \in AllPaths \ {cfg.log_file} : fs'[p] = fs[p]
          /\ (fs'[cfg.log_file] = fs[cfg.log_file] \/ fs'[cfg.log_file] = LogText)
          /\ outDirExists' = outDirExists
          /\ \A i \in 1 .. Len(events') :
                events'[i].action \in {"ERROR", "SKIP", "DRY-RUN-ADD", "DRY-RUN-CROP"}
      ]_vars

\* a finished dry run with output_dir set that reported all three plans
C7_Witness ==
    /\ cfg.dry_run /\ cfg.output_dir /\ pc = "done"
    /\ \E i \in ImageEvents : events[i].action = "SKIP"
    /\ \E i \in ImageEvents : events[i].action = "DRY-RUN-ADD"
    /\ \E i \in ImageEvents : events[i].action = "DRY-RUN-CROP"
    /\ fs[cfg.log_file] = LogText

----------------------------------------------------------------------------
(* C8 *)

Rank(p) == CHOOSE k \in 1 .. Len(PathOrder) : PathOrder[k] = p

EventsOfRun(r) == SelectSeq(events, LAMBDA e : e.run = r)

PathsOfRun(r) == [k \in 1 .. Len(EventsOfRun(r)) |-> EventsOfRun(r)[k].path]

Range(q) == { q[k] : k \in 1 .. Len(q) }

C8_Attempts ==
    /\ pc \in {"loop", "summary", "done"} =>
          /\ Range(queue) = { p \in InputPaths : fs[p].kind # "absent" /\ p[2] \in {"x.png", "y.png"} }
          /\ \A k \in 1 .. Len(queue) - 1 : Rank(queue[k]) < Rank(queue[k + 1])
    /\ pc = "loop" => PathsOfRun(run) = SubSeq(queue, 1, idx - 1)
    /\ pc \in {"summary", "done"} => PathsOfRun(run) = queue

\* C8: once the directory has passed validation, whatever fails in one file,
\* the files attempted so far are the sorted discovered files up to the
\* current one, each once; the run is never stopped by a failure: it is in
\* the loop only with a file left to process (so its next step can be taken),
\* and at the summary every discovered file has been attempted.
C8_FailureIsolation ==
    /\ C8_Attempts
    /\ pc \in {"main", "exit", "scan", "loop", "summary", "done"}
    /\ pc = "loop" => idx <= Len(queue)

\* a finished run whose first file failed to decode, whose second failed to
\* save and whose third was written
C8_Witness ==
    /\ pc = "done" /\ run = 1 /\ Len(events) = 3
    /\ events[1].action = "ERROR" /\ events[1].stage = "open"
    /\ events[2].action = "ERROR" /\ events[2].stage = "save"
    /\ events[3].action = "APPLIED"

----------------------------------------------------------------------------
(* C9 *)

\* C9: in live mode every image that is transformed (not skipped) is written:
\* with output_dir set, the directory exists afterwards and the file is written
\* under it with the same name; without it, over the source file.
C9_OutputWritten ==
    \A i \in ImageEvents :
        LET e == events[i] IN
        (~cfg.dry_run /\ e.action # "SKIP") =>
            /\ Written(e)
            /\ IF cfg.output_dir
               THEN outDirExists /\ e.output_path = <<OutputDir, e.path[2]>>
               ELSE e.output_path = e.path

----------------------------------------------------------------------------
(* C10 *)

\* C10: the outcome for a file depends only on its content and the
\* configuration: two calls on the same content end the same way with the same
\* result, and two distinct files of one run never write to the same path.
C10_Independent ==
    \A i \in 1 .. Len(events) : \A j \in 1 .. Len(events) :
        /\ events[i].input = events[j].input =>
              /\ events[i].action = events[j].action
              /\ events[i].result = events[j].result
        /\ (events[i].run = events[j].run /\ events[i].path # events[j].path
               /\ Written(events[i]) /\ Written(events[j])) =>
              events[i].output_path # events[j].output_path

====
